---- MODULE Spec2Model ----
(***************************************************************************)
(* Workflow orchestration and validation-coordination engine of            *)
(* Proposal_bot: the project lock (app/core/redis_client.py), the          *)
(* orchestrator's decision engine and state store (app/core/agent.py),     *)
(* the planning agent's validation fan-out (app/agents/planning_agent.py), *)
(* the task dispatcher (app/core/celery_app.py, app/core/tasks.py), the    *)
(* email agent's inbox check (app/agents/email_agent.py)                   *)
(* and the checkpointed proposal workflow                                  *)
(* (proposal_bot/graphs/proposal_workflow.py).                             *)
(***************************************************************************)
EXTENDS Integers, Sequences, FiniteSets, TLC

None == "None"

\* The reply of redis GET for a key that does not exist (values are
\* character sequences).
Nil == <<>>

(***************************************************************************)
(* Bounds of the model.                                                    *)
(***************************************************************************)
MaxTime == 3
MaxLockProject == 1
MaxResumes == 2
MaxLog == 2
MaxValidations == 2
MaxTasks == 2
MaxMail == 2
MaxChecks == 2
MaxScenarioLog == 5
MaxSends == 2
MaxBriefRuns == 3

VARIABLES
    \* ---- coordination store and lock manager (redis_client.py)
    redis_client,   \* per worker process: TRUE when the module's client is set
    lockVal,        \* key lock:project:<id> -> stored value, Nil when absent
    lockExp,        \* key lock:project:<id> -> time at which the key expires
    now,            \* wall clock, in seconds
    lcall,          \* per worker: the release/renew call it is in the middle of
    lockRet,        \* the last completed lock call and what it returned
    \* ---- decision engine (OrchestratorAgent._decide_next_action)
    d_status,       \* project_state["status"] given to the engine
    d_llm,          \* what generate_text does: raises, or returns a text
    d_result,       \* what _decide_next_action did: NotCalled before the call
    \* ---- checkpointed proposal workflow (proposal_workflow.py)
    wf,             \* per thread_id: the checkpointer's state and the running invoke
    wfHist,         \* per thread_id: the resume calls completed so far
    \* ---- state store and orchestrator (agent.py, planning_agent.py, tasks.py)
    projects,       \* projects table: id -> row
    transition_log, \* state_transition_logs table, in insertion order
    validations,    \* validations table, in insertion order (index = id)
    cyc,            \* per worker: the OrchestratorAgent.execute call it runs
    \* ---- task dispatcher (celery_app.py, tasks.py)
    tasks,          \* per task id: the dispatched task and its attempts so far
    \* ---- correlation layer (EmailAgent inbox check, email_agent.py)
    email_redis,    \* EmailAgent.redis: TRUE for a client, FALSE for None
    thread_keys,    \* thread ids that have a key thread:<id> in the store
    mailbox,        \* unseen messages of the IMAP inbox, in arrival order
    processed_email,\* uids that have a key processed_email:<uid> in the store
    routed,         \* calls of _process_incoming_email so far: uid and outcome
    inbox_ret,      \* the last _check_inbox call: its input and its result
    \* ---- beat scheduler (celery_app.conf.beat_schedule)
    beat,           \* per schedule entry: when its task last ran, and its result
    \* ---- outbound mail (EmailAgent.execute, the send actions)
    outbox,         \* messages handed to SMTP, in order
    email_sent,     \* keys email_sent:<to>:<hash> in the store
    uuid_n,         \* thread ids generated so far
    send_ret,       \* the last execute call with a send action, and its result
    \* ---- brief review agent called on its own (BriefReviewAgent.execute)
    checkpoint,     \* what a saved checkpoint of (project, "brief_review") records
    brief_ret       \* calls of BriefReviewAgent.execute so far, and the last result

lockVars == <<redis_client, lockVal, lockExp, now, lcall, lockRet>>
decVars == <<d_status, d_llm, d_result>>

wfVars == <<wf, wfHist>>

orchVars == <<projects, transition_log, validations, cyc>>

taskVars == <<tasks>>

inboxVars == <<email_redis, thread_keys, mailbox, processed_email, routed, inbox_ret>>

beatVars == <<beat>>

sendVars == <<outbox, email_sent, uuid_n, send_ret>>

briefVars == <<checkpoint, brief_ret>>

vars == <<lockVars, decVars, wfVars, orchVars, taskVars, inboxVars, beatVars, sendVars,
          briefVars>>

\* What each component's actions leave alone.
notLock == <<decVars, wfVars, orchVars, taskVars, inboxVars, beatVars, sendVars, briefVars>>
notDec == <<lockVars, wfVars, orchVars, taskVars, inboxVars, beatVars, sendVars, briefVars>>
notWf == <<lockVars, decVars, orchVars, taskVars, inboxVars, beatVars, sendVars, briefVars>>
notOrch == <<lockVars, decVars, wfVars, taskVars, inboxVars, beatVars, sendVars, briefVars>>
notTask == <<lockVars, decVars, wfVars, transition_log, validations, cyc, inboxVars, beatVars, sendVars, briefVars>>
notInbox == <<lockVars, decVars, wfVars, orchVars, taskVars, beatVars, sendVars, briefVars>>
notBeat == <<lockVars, decVars, wfVars, orchVars, taskVars, inboxVars, sendVars, briefVars>>

(***************************************************************************)
(* Lock manager                                                            *)
(***************************************************************************)
Workers == {"w1", "w2"}
LockProjects == 1..MaxLockProject

\* Agent names are character sequences, so that str.startswith is a real
\* prefix test: "wA", "wB" and "w".
AgentNames == { <<"w", "A">>, <<"w", "B">>, <<"w">> }

\* settings.redis_url.split('/')[-1]
UrlSuffix == <<"h">>

\* ttl_seconds, in clock ticks
TTLs == {1, 2}

\* f"{agent_name}:{settings.redis_url.split('/')[-1]}"
LockValue(agent_name) == agent_name \o <<":">> \o UrlSuffix

\* str.startswith
StartsWith(s, prefix) ==
    /\ Len(prefix) <= Len(s)
    /\ SubSeq(s, 1, Len(prefix)) = prefix

\* A key set with EX is visible until its expiry time is reached.
KeyExists(p) == lockVal[p] # Nil /\ now < lockExp[p]

\* redis GET: the value, or nil for an absent or expired key.
RedisGet(p) == IF KeyExists(p) THEN lockVal[p] ELSE Nil

\* Return values are Python's True, False and None; this is truthiness.
Truthy(ret) == ret = "True"

NoCall == [pc |-> "idle"]

LockInit ==
    /\ redis_client \in [Workers -> BOOLEAN]
    /\ lockVal = [p \in LockProjects |-> Nil]
    /\ lockExp = [p \in LockProjects |-> 0]
    /\ now = 0
    /\ lcall = [w \in Workers |-> NoCall]
    /\ lockRet = [op |-> "none"]

Returned(op, w, p, n, ttl, ret, preVal) ==
    [op |-> op, worker |-> w, project |-> p, agent |-> n, ttl |-> ttl,
     ret |-> ret, preVal |-> preVal, client |-> redis_client[w]]

\* SET without NX: the key is written whether or not it exists.
RedisSetAlways(p, value, ttl) ==
    /\ lockVal' = [lockVal EXCEPT ![p] = value]
    /\ lockExp' = [lockExp EXCEPT ![p] = now + ttl]

\* SET key value EX ttl NX: the key is written only when it does not exist.
RedisSetNx(p, value, ttl) ==
    IF KeyExists(p)
    THEN /\ UNCHANGED <<lockVal, lockExp>>
    ELSE /\ lockVal' = [lockVal EXCEPT ![p] = value]
         /\ lockExp' = [lockExp EXCEPT ![p] = now + ttl]

\* acquire_project_lock without its first two lines: the store is used
\* whether or not the client is set, and a call without one is denied.
AcquireFailClosed(w, p, n, ttl) ==
    /\ lcall[w].pc = "idle"
    /\ IF ~redis_client[w]
       THEN /\ UNCHANGED <<lockVal, lockExp>>
            /\ lockRet' = Returned("acquire", w, p, n, ttl, "False", RedisGet(p))
       ELSE /\ RedisSetNx(p, LockValue(n), ttl)
            /\ lockRet' = Returned("acquire", w, p, n, ttl,
                                   IF KeyExists(p) THEN None ELSE "True", RedisGet(p))
    /\ UNCHANGED <<redis_client, now, lcall, notLock>>

\* acquire_project_lock
Acquire(w, p, n, ttl) ==
    /\ lcall[w].pc = "idle"
    /\ IF ~redis_client[w]
       THEN /\ UNCHANGED <<lockVal, lockExp>>
            /\ lockRet' = Returned("acquire", w, p, n, ttl, "True", RedisGet(p))
       ELSE /\ RedisSetNx(p, LockValue(n), ttl)
            /\ lockRet' = Returned("acquire", w, p, n, ttl,
                                   IF KeyExists(p) THEN None ELSE "True", RedisGet(p))
    /\ UNCHANGED <<redis_client, now, lcall, notLock>>

\* The ownership test of release_project_lock and renew_project_lock.
OwnerCheck(current_value, agent_name) ==
    /\ current_value # Nil
    /\ StartsWith(current_value, agent_name)

\* release_project_lock, up to and including its GET and ownership test.
ReleaseGet(w, p, n) ==
    /\ lcall[w].pc = "idle"
    /\ IF ~redis_client[w]
       THEN /\ lockRet' = Returned("release", w, p, n, 0, "True", RedisGet(p))
            /\ UNCHANGED lcall
       ELSE IF OwnerCheck(RedisGet(p), n)
            THEN /\ lcall' = [lcall EXCEPT ![w] =
                        [pc |-> "delete", project |-> p, agent |-> n, ttl |-> 0,
                         preVal |-> RedisGet(p)]]
                 /\ UNCHANGED lockRet
            ELSE /\ lockRet' = Returned("release", w, p, n, 0, "False", RedisGet(p))
                 /\ UNCHANGED lcall
    /\ UNCHANGED <<redis_client, lockVal, lockExp, now, notLock>>

\* release_project_lock: the DELETE that follows a passed ownership test.
ReleaseDelete(w) ==
    /\ lcall[w].pc = "delete"
    /\ lockVal' = [lockVal EXCEPT ![lcall[w].project] = Nil]
    /\ lockExp' = [lockExp EXCEPT ![lcall[w].project] = 0]
    /\ lockRet' = Returned("release", w, lcall[w].project, lcall[w].agent, 0,
                           "True", lcall[w].preVal)
    /\ lcall' = [lcall EXCEPT ![w] = NoCall]
    /\ UNCHANGED <<redis_client, now, notLock>>

\* renew_project_lock, up to and including its GET and ownership test.
RenewGet(w, p, n, ttl) ==
    /\ lcall[w].pc = "idle"
    /\ IF ~redis_client[w]
       THEN /\ lockRet' = Returned("renew", w, p, n, ttl, "True", RedisGet(p))
            /\ UNCHANGED lcall
       ELSE IF OwnerCheck(RedisGet(p), n)
            THEN /\ lcall' = [lcall EXCEPT ![w] =
                        [pc |-> "expire", project |-> p, agent |-> n, ttl |-> ttl,
                         preVal |-> RedisGet(p)]]
                 /\ UNCHANGED lockRet
            ELSE /\ lockRet' = Returned("renew", w, p, n, ttl, "False", RedisGet(p))
                 /\ UNCHANGED lcall
    /\ UNCHANGED <<redis_client, lockVal, lockExp, now, notLock>>

\* renew_project_lock: the EXPIRE that follows a passed ownership test.
RenewExpire(w) ==
    /\ lcall[w].pc = "expire"
    /\ IF KeyExists(lcall[w].project)
       THEN lockExp' = [lockExp EXCEPT ![lcall[w].project] = now + lcall[w].ttl]
       ELSE UNCHANGED lockExp
    /\ lockRet' = Returned("renew", w, lcall[w].project, lcall[w].agent,
                           lcall[w].ttl, "True", lcall[w].preVal)
    /\ lcall' = [lcall EXCEPT ![w] = NoCall]
    /\ UNCHANGED <<redis_client, lockVal, now, notLock>>

\* Time passes; an expired key is gone from the store.
Tick ==
    /\ now + 1 <= MaxTime
    /\ now' = now + 1
    /\ lockVal' = [p \in LockProjects |->
                     IF lockVal[p] # Nil /\ now + 1 >= lockExp[p] THEN Nil ELSE lockVal[p]]
    /\ lockExp' = [p \in LockProjects |->
                     IF lockVal[p] # Nil /\ now + 1 >= lockExp[p] THEN 0 ELSE lockExp[p]]
    /\ UNCHANGED <<redis_client, lcall, lockRet, notLock>>

LockNext ==
    \/ \E w \in Workers, p \in LockProjects, n \in AgentNames, ttl \in TTLs :
          Acquire(w, p, n, ttl)
    \/ \E w \in Workers, p \in LockProjects, n \in AgentNames : ReleaseGet(w, p, n)
    \/ \E w \in Workers : ReleaseDelete(w)
    \/ \E w \in Workers, p \in LockProjects, n \in AgentNames, ttl \in TTLs :
          RenewGet(w, p, n, ttl)
    \/ \E w \in Workers : RenewExpire(w)
    \/ Tick

(***************************************************************************)
(* Decision engine                                                         *)
(***************************************************************************)
\* Project.status values: the thirteen workflow states and the two other
\* names _determine_new_status can write.
WorkflowStates ==
    {"received", "analyzing", "requirements_ready", "validating", "planning",
     "draft_ready", "review_ready", "approved", "generating", "final_ready",
     "sent", "escalated", "timeout"}
Statuses == WorkflowStates \cup {"needs_clarification", "design_questions"}

\* A value a function returns, or the exception it raises.
Ok(v) == [exc |-> "none", value |-> v]
Raise(kind) == [exc |-> kind]
NotCalled == [exc |-> "not called"]

\* Tokens of a reply text: braces, a junk character, and a JSON member
\* "key": value (member values are atomic in this model).
LBrace == [t |-> "{", key |-> "", val |-> ""]
RBrace == [t |-> "}", key |-> "", val |-> ""]
Junk == [t |-> "x", key |-> "", val |-> ""]
Member(k, v) == [t |-> "kv", key |-> k, val |-> v]

\* str.find / str.rfind, 0-based, -1 when the character is absent.
Find(text, tok) ==
    IF \E i \in 1..Len(text) : text[i] = tok
    THEN (CHOOSE i \in 1..Len(text) :
            text[i] = tok /\ \A j \in 1..(i - 1) : text[j] # tok) - 1
    ELSE -1
RFind(text, tok) ==
    IF \E i \in 1..Len(text) : text[i] = tok
    THEN (CHOOSE i \in 1..Len(text) :
            text[i] = tok /\ \A j \in (i + 1)..Len(text) : text[j] # tok) - 1
    ELSE -1

\* text[start:end] with Python's treatment of a negative start.
PySlice(text, start, end) ==
    LET lo == IF start < 0
              THEN (IF Len(text) + start < 0 THEN 0 ELSE Len(text) + start)
              ELSE (IF start > Len(text) THEN Len(text) ELSE start)
        hi == IF end > Len(text) THEN Len(text) ELSE end
    IN  SubSeq(text, lo + 1, hi)

\* json.loads accepts exactly one object: { member* }.
JsonValid(json_str) ==
    /\ Len(json_str) >= 2
    /\ json_str[1] = LBrace
    /\ json_str[Len(json_str)] = RBrace
    /\ \A i \in 2..(Len(json_str) - 1) : json_str[i].t = "kv"

\* The dict json.loads builds: a repeated key keeps its last value.
JsonLoads(json_str) ==
    LET keys == { json_str[i].key : i \in 2..(Len(json_str) - 1) }
        last(k) == CHOOSE i \in 2..(Len(json_str) - 1) :
                      /\ json_str[i].key = k
                      /\ \A j \in (i + 1)..(Len(json_str) - 1) : json_str[j].key # k
    IN  [k \in keys |-> json_str[last(k)].val]

\* The try block of _parse_decision: the decision, or the exception raised.
ParseTry(decision_text) ==
    LET start == Find(decision_text, LBrace)
        end == RFind(decision_text, RBrace) + 1
        json_str == PySlice(decision_text, start, end)
    IN  IF ~JsonValid(json_str)
        THEN Raise("JSONDecodeError")
        ELSE IF ~({"action", "reasoning"} \subseteq DOMAIN JsonLoads(json_str))
             THEN Raise("ValueError")
             ELSE Ok(JsonLoads(json_str))

\* OrchestratorAgent._parse_decision
parse_decision(decision_text) ==
    LET r == ParseTry(decision_text)
    IN  IF r.exc \in {"JSONDecodeError", "ValueError"}
        THEN Ok([action |-> "escalate", reasoning |-> "Decision parsing failed"])
        ELSE r

\* The fallbacks table of _fallback_decision.
Fallbacks ==
    [received |-> [action |-> "analyze_rfp", agent |-> "brief_review"],
     analyzing |-> [action |-> "check_analysis_complete", agent |-> "brief_review"],
     requirements_ready |-> [action |-> "start_validation", agent |-> "planning"],
     validating |-> [action |-> "check_validations", agent |-> "planning"],
     planning |-> [action |-> "create_plan", agent |-> "planning"],
     draft_ready |-> [action |-> "prepare_proposal", agent |-> "gtm"],
     approved |-> [action |-> "generate_powerpoint", agent |-> "powerpoint"],
     final_ready |-> [action |-> "send_proposal", agent |-> "email"]]

\* OrchestratorAgent._fallback_decision
fallback_decision(status) ==
    IF status \in DOMAIN Fallbacks
    THEN Ok(Fallbacks[status])
    ELSE Ok([action |-> "escalate", reasoning |-> "No fallback available"])

\* _decide_next_action without its except clause.
DecideNoExcept(status, llm) ==
    IF llm.kind = "raise" THEN Raise("LLMError") ELSE parse_decision(llm.text)

\* OrchestratorAgent._decide_next_action: generate_text and _parse_decision
\* run inside try; except Exception returns the fallback.
decide_next_action(status, llm) ==
    LET tried == IF llm.kind = "raise"
                 THEN Raise("LLMError")
                 ELSE parse_decision(llm.text)
    IN  IF tried.exc # "none" THEN fallback_decision(status) ELSE tried

\* Replies of the text-generation collaborator used as inputs.
LLMActions ==
    {"analyze_rfp", "check_analysis_complete", "send_clarification",
     "start_validation", "check_validations", "create_plan",
     "send_design_questions", "prepare_proposal", "wait_for_review",
     "generate_powerpoint", "send_proposal", "wait", "escalate", "bogus"}
LLMAgents == {"brief_review", "planning", "gtm", "powerpoint", "email", "ghost"}

WellFormed(a, g) ==
    <<Junk, LBrace, Member("action", a), Member("agent", g),
      Member("reasoning", "r"), RBrace, Junk>>
NoAgent(a) == <<LBrace, Member("action", a), Member("reasoning", "r"), RBrace>>

MalformedTexts ==
    { <<>>,
      <<Junk, Junk>>,
      <<Junk, RBrace>>,
      <<RBrace, Junk, LBrace>>,
      <<LBrace, RBrace>>,
      <<LBrace, Member("action", "analyze_rfp")>>,
      <<LBrace, Member("action", "wait"), Junk, RBrace>>,
      <<LBrace, Member("agent", "planning"), Member("reasoning", "r"), RBrace>>,
      <<LBrace, Member("action", "create_plan"), Member("agent", "planning"), RBrace>>,
      <<LBrace, Member("action", "wait"), Member("reasoning", "r"), RBrace, Junk,
        LBrace, Member("action", "wait"), Member("reasoning", "r"), RBrace>> }

WellFormedTexts ==
    { WellFormed(a, g) : a \in LLMActions, g \in LLMAgents }
        \cup { NoAgent(a) : a \in LLMActions }

LLMOutcomes ==
    {[kind |-> "raise"]}
        \cup { [kind |-> "text", text |-> t] : t \in MalformedTexts \cup WellFormedTexts }

DecInit ==
    /\ d_status \in Statuses
    /\ d_llm \in LLMOutcomes
    /\ d_result = NotCalled

\* One call of _decide_next_action.
Decide ==
    /\ d_result = NotCalled
    /\ d_result' = decide_next_action(d_status, d_llm)
    /\ UNCHANGED <<d_status, d_llm, notDec>>

(***************************************************************************)
(* State store, orchestrator cycle and planning agent                      *)
(***************************************************************************)
\* Rows of the projects table, and the project ids callers pass (2 is the id
\* of no row).
ProjectIds == {1}
ProjectIdInputs == {1, 2}

\* Project.timeout_at: 0 stands for NULL.
TimeoutInputs == {0, 1}

\* STATE_TRANSITIONS
STATE_TRANSITIONS ==
    [received |-> [next |-> "analyzing", agent |-> "brief_review", action |-> "analyze_rfp"],
     analyzing |-> [next |-> "requirements_ready", agent |-> "brief_review", action |-> "complete_analysis"],
     requirements_ready |-> [next |-> "validating", agent |-> "planning", action |-> "start_planning"],
     validating |-> [next |-> "planning", agent |-> "planning", action |-> "complete_validations"],
     planning |-> [next |-> "draft_ready", agent |-> "planning", action |-> "create_plan"],
     draft_ready |-> [next |-> "review_ready", agent |-> "gtm", action |-> "generate_proposal"],
     review_ready |-> [next |-> "approved", agent |-> "gtm", action |-> "await_approval"],
     approved |-> [next |-> "generating", agent |-> "powerpoint", action |-> "generate_presentation"],
     generating |-> [next |-> "final_ready", agent |-> "powerpoint", action |-> "finalize_presentation"],
     final_ready |-> [next |-> "sent", agent |-> "email", action |-> "deliver_proposal"]]

\* status_map of _determine_new_status
StatusMap ==
    [analyze_rfp |-> "analyzing",
     check_analysis_complete |-> "requirements_ready",
     send_clarification |-> "needs_clarification",
     start_validation |-> "validating",
     check_validations |-> "planning",
     create_plan |-> "draft_ready",
     send_design_questions |-> "design_questions",
     prepare_proposal |-> "review_ready",
     generate_powerpoint |-> "final_ready",
     send_proposal |-> "sent"]

\* OrchestratorAgent._determine_new_status: status_map.get(action)
determine_new_status(action) ==
    IF action \in DOMAIN StatusMap THEN StatusMap[action] ELSE None

\* Names registered in the agent registry that a decision may name.
RegisteredAgents == {"brief_review", "planning", "gtm", "powerpoint", "email"}

\* Replies of the collaborator to the decision prompt, in this model.
OrchLLM ==
    {[kind |-> "raise"], [kind |-> "text", text |-> <<>>],
     [kind |-> "text", text |-> WellFormed("analyze_rfp", "brief_review")],
     [kind |-> "text", text |-> WellFormed("create_plan", "planning")],
     [kind |-> "text", text |-> WellFormed("send_proposal", "email")],
     [kind |-> "text", text |-> WellFormed("send_proposal", "ghost")],
     [kind |-> "text", text |-> WellFormed("send_clarification", "email")],
     [kind |-> "text", text |-> WellFormed("wait", "email")],
     [kind |-> "text", text |-> WellFormed("escalate", "email")]}

\* validations_needed of the validation plan: (resource_id, attribute) pairs.
NeedA == [resource_id |-> 1, attribute |-> "availability"]
NeedB == [resource_id |-> 1, attribute |-> "current_availability"]
ValidationPlans == { <<>>, <<NeedA>>, <<NeedA, NeedB>> }

Idle(result) == [pc |-> "idle", result |-> result]

\* The except clause of execute: {"status": "error", "error": str(e)}.
Failed(error) == [pc |-> "idle", result |-> "error", error |-> error]

OrchInit ==
    /\ projects \in [ProjectIds ->
                       [status : {"received"}, rfp : BOOLEAN, analysis : {FALSE},
                        plan : {FALSE}, timeout_at : TimeoutInputs]]
    /\ transition_log = <<>>
    /\ validations = <<>>
    /\ cyc = [w \in Workers |-> Idle("none")]

\* StateTransitionLog(...) as _transition_state builds it.
LogEntry(project_id, old_status, new_status, reasoning) ==
    [project_id |-> project_id, from_status |-> old_status,
     to_status |-> new_status, agent_name |-> "orchestrator",
     reasoning |-> reasoning]

\* OrchestratorAgent._transition_state: no row, nothing happens; otherwise
\* the status is overwritten and one log row is added in the same commit.
transition_state(project_id, new_status, reasoning) ==
    IF project_id \in ProjectIds
    THEN /\ projects' = [projects EXCEPT ![project_id].status = new_status]
         /\ transition_log' = Append(transition_log,
                LogEntry(project_id, projects[project_id].status, new_status, reasoning))
    ELSE UNCHANGED <<projects, transition_log>>

\* OrchestratorAgent._check_timeouts
check_timeouts(timeout_at) == timeout_at # 0 /\ now > timeout_at

\* execute, from its start to the timeout check: _get_project_state raises
\* for a missing row (execute returns error); a passed timeout is recorded
\* and execute returns timeout_handled; otherwise the cycle goes on.
\* aware: the store hands timeout_at back timezone-aware (the column is
\* DateTime(timezone=True)), and comparing it with datetime.utcnow() raises
\* TypeError, which execute turns into an error result.
BeginCycle(w, project_id, aware) ==
    /\ cyc[w].pc = "idle"
    /\ aware => (project_id \in ProjectIds /\ projects[project_id].timeout_at # 0)
    /\ IF project_id \notin ProjectIds \/ aware
       THEN /\ cyc' = [cyc EXCEPT ![w] =
                        Failed(IF project_id \notin ProjectIds
                               THEN "Project not found" ELSE "TypeError")]
            /\ UNCHANGED <<projects, transition_log>>
       ELSE IF check_timeouts(projects[project_id].timeout_at)
            THEN /\ transition_state(project_id, "timeout", "Project timed out")
                 /\ cyc' = [cyc EXCEPT ![w] = Idle("timeout_handled")]
            ELSE /\ cyc' = [cyc EXCEPT ![w] =
                        [pc |-> "decide", project_id |-> project_id,
                         status |-> projects[project_id].status]]
                 /\ UNCHANGED <<projects, transition_log>>
    /\ UNCHANGED <<validations, notOrch>>

\* A cycle starts while the log has room.
Begin(w, project_id, aware) ==
    /\ Len(transition_log) < MaxLog
    /\ BeginCycle(w, project_id, aware)

\* PlanningAgent._create_validation_task for each entry of the plan: one
\* pending row per entry. celery_task tells whether a send_validation_email
\* task carrying the row's id has been queued; the dispatch loop that follows
\* raises ImportError in its first iteration, before any apply_async call.
CreateValidationTasks(plan) ==
    validations \o [i \in 1..Len(plan) |->
                      [resource_id |-> plan[i].resource_id,
                       attribute_path |-> plan[i].attribute,
                       status |-> "pending",
                       timeout_at |-> 0,
                       celery_task |-> FALSE]]

\* What agent.execute leaves behind: the two tables and its own result.
Effect(new_projects, new_validations, status) ==
    [projects |-> new_projects, validations |-> new_validations, status |-> status]

\* PlanningAgent.execute on the project row: "error" without requirements
\* or when a collaborator call raises; the validation rows are created,
\* and dispatching a non-empty list raises (core.tasks has no
\* send_validation_email); otherwise _save_project_plan stores the plan
\* with status planning.
PlanningExecute(project_id, plan, llm_ok) ==
    IF project_id \notin ProjectIds \/ ~llm_ok
    THEN Effect(projects, validations, "error")
    ELSE IF ~projects[project_id].analysis
    THEN Effect(projects, validations, "error")
    ELSE IF plan # <<>>
    THEN Effect(projects, CreateValidationTasks(plan), "error")
    ELSE Effect([projects EXCEPT ![project_id].plan = TRUE,
                                 ![project_id].status = "planning"],
                validations, "completed")

\* BriefReviewAgent.execute on the project row.
BriefReviewExecute(project_id, llm_ok) ==
    IF project_id \in ProjectIds /\ projects[project_id].rfp /\ llm_ok
    THEN Effect([projects EXCEPT ![project_id].analysis = TRUE],
                validations, "completed")
    ELSE Effect(projects, validations, "error")

\* GTMAgent.execute on the project row (_mark_for_review on success).
GtmExecute(project_id, llm_ok) ==
    IF project_id \in ProjectIds /\ projects[project_id].plan /\ llm_ok
    THEN Effect([projects EXCEPT ![project_id].status = "review_ready"],
                validations, "ready_for_review")
    ELSE Effect(projects, validations, "error")

\* agent.execute(context) for the named agent.
AgentExecute(agent_name, project_id, plan, llm_ok) ==
    CASE agent_name = "brief_review" -> BriefReviewExecute(project_id, llm_ok)
      [] agent_name = "planning" -> PlanningExecute(project_id, plan, llm_ok)
      [] agent_name = "gtm" -> GtmExecute(project_id, llm_ok)
      [] OTHER -> Effect(projects, validations,
                         IF llm_ok THEN "completed" ELSE "error")

\* _decide_next_action followed by _execute_action. plan and llm_ok are what
\* the collaborator gives the agent that runs; they matter to no other branch.
DecideCycle(w, llm, plan, llm_ok) ==
    /\ cyc[w].pc = "decide"
    /\ LET decision == decide_next_action(cyc[w].status, llm).value
           action_type == decision.action
           project_id == cyc[w].project_id
           runs == /\ action_type \notin {"wait", "escalate"}
                   /\ "agent" \in DOMAIN decision
                   /\ decision.agent \in RegisteredAgents
       IN  /\ (plan # <<>>) => (runs /\ decision.agent = "planning" /\ llm_ok)
           /\ ~llm_ok => runs
           /\ IF action_type = "wait"
              THEN /\ cyc' = [cyc EXCEPT ![w] = Idle("waiting")]
                   /\ UNCHANGED <<projects, transition_log, validations>>
              ELSE IF action_type = "escalate"
              THEN /\ transition_state(project_id, "escalated", "escalate")
                   /\ cyc' = [cyc EXCEPT ![w] = Idle("escalated")]
                   /\ UNCHANGED validations
              ELSE IF ~runs
              THEN /\ cyc' = [cyc EXCEPT ![w] = Idle("error")]
                   /\ UNCHANGED <<projects, transition_log, validations>>
              ELSE LET e == AgentExecute(decision.agent, project_id, plan, llm_ok)
                   IN  /\ projects' = e.projects
                       /\ validations' = e.validations
                       /\ cyc' = [cyc EXCEPT ![w] =
                               [pc |-> "update", project_id |-> project_id,
                                status |-> cyc[w].status,
                                result |-> "completed", action |-> action_type,
                                agent_result |-> e.status]]
                       /\ UNCHANGED transition_log
    /\ UNCHANGED notOrch

\* The step is taken while the validations table has room for the plan.
DecideAndExecute(w, llm, plan, llm_ok) ==
    /\ Len(validations) + Len(plan) <= MaxValidations
    /\ DecideCycle(w, llm, plan, llm_ok)

\* _update_project_state, after which execute returns the result.
UpdateState(w) ==
    /\ cyc[w].pc = "update"
    /\ IF cyc[w].result = "completed" /\ determine_new_status(cyc[w].action) # None
       THEN transition_state(cyc[w].project_id, determine_new_status(cyc[w].action),
                             "Action completed")
       ELSE UNCHANGED <<projects, transition_log>>
    /\ cyc' = [cyc EXCEPT ![w] = Idle(cyc[w].result)]
    /\ UNCHANGED <<validations, notOrch>>

OrchNext ==
    \/ \E w \in Workers, project_id \in ProjectIdInputs, aware \in BOOLEAN :
          Begin(w, project_id, aware)
    \/ \E w \in Workers, llm \in OrchLLM, plan \in ValidationPlans,
          llm_ok \in BOOLEAN : DecideAndExecute(w, llm, plan, llm_ok)
    \/ \E w \in Workers : UpdateState(w)
    \/ Tick

(***************************************************************************)
(* Brief review agent called on its own                                    *)
(***************************************************************************)
\* What a checkpoint saved for (project_id, "brief_review") may record.
CheckpointInputs == {"none", "failed", "completed"}

\* Everything the agent leaves alone besides the project tables.
notBrief == <<lockVars, decVars, wfVars, taskVars, inboxVars, beatVars, sendVars>>

NoBriefRun == [calls |-> 0, analyses |-> 0, status |-> "none", recovered |-> FALSE]

BriefIdle ==
    /\ checkpoint = "none"
    /\ brief_ret = NoBriefRun

BriefInit ==
    /\ checkpoint \in CheckpointInputs
    /\ brief_ret = NoBriefRun

\* BriefReviewAgent.execute: it reads the RFP content and runs the analysis;
\* no checkpoint is loaded and the result has no key
\* recovered_from_checkpoint. analyses counts the calls of _analyze_brief.
BriefExecute(project_id, llm_ok) ==
    /\ brief_ret.calls < MaxBriefRuns
    /\ LET e == BriefReviewExecute(project_id, llm_ok)
           has_rfp == project_id \in ProjectIds /\ projects[project_id].rfp
       IN  /\ projects' = e.projects
           /\ brief_ret' = [calls |-> brief_ret.calls + 1,
                            analyses |-> brief_ret.analyses + (IF has_rfp THEN 1 ELSE 0),
                            status |-> e.status,
                            recovered |-> FALSE]
    /\ UNCHANGED <<checkpoint, transition_log, validations, cyc, notBrief>>

BriefNext ==
    \E project_id \in ProjectIdInputs, llm_ok \in BOOLEAN : BriefExecute(project_id, llm_ok)

(***************************************************************************)
(* Task dispatcher (Celery tasks with bind=True and max_retries)           *)
(***************************************************************************)
TaskIds == 1..MaxTasks

\* max_retries of each task class, from its @celery_app.task decorator.
TaskMaxRetries ==
    [process_rfp |-> 3, send_email |-> 5, check_inbox |-> 3,
     validate_resource |-> 3, update_knowledge_base |-> 2,
     generate_presentation |-> 2]

TaskClasses == DOMAIN TaskMaxRetries

\* Task classes whose arguments name a project.
ProjectTasks == {"process_rfp", "validate_resource", "generate_presentation"}

\* Task classes whose body starts with db_session = next(get_db()): get_db
\* is an async generator function, so next() raises TypeError on every
\* attempt, before the agent is looked up.
NextGetDbTasks == TaskClasses \ {"process_rfp"}

NoTask == [state |-> "none"]

TaskIdle == tasks = [t \in TaskIds |-> NoTask]

\* apply_async / delay: the task is queued with request.retries = 0.
Dispatch(t, class, project_id) ==
    /\ tasks[t] = NoTask
    /\ project_id = (IF class \in ProjectTasks THEN 1 ELSE 0)
    /\ tasks' = [tasks EXCEPT ![t] =
                    [state |-> "queued", class |-> class, project_id |-> project_id,
                     retries |-> 0, attempts |-> 0]]
    /\ UNCHANGED <<projects, notTask>>

\* Statuses an orchestrator cycle can leave on the project (the cycle itself
\* is the subject of SpecOrch).
CycleStatuses ==
    { StatusMap[a] : a \in DOMAIN StatusMap }
        \cup {"escalated", "timeout", "planning", "review_ready"}

\* Task.retry(exc=exc) of the bound task: a new attempt while
\* request.retries < max_retries, otherwise exc is raised and the task fails.
RetryAllowedAlways(class, retries) == TRUE

RetryAllowed(class, retries) == retries < TaskMaxRetries[class]

\* One execution of the task body by a worker. raises: the body raised (for
\* process_rfp: get_agent("orchestrator") or the session factory raised;
\* OrchestratorAgent.execute itself catches every exception).
\* handle_task_failure, connected to task_failure, only logs.
Attempt(t, raises, new_status) ==
    /\ tasks[t].state \in {"queued", "retry"}
    /\ (tasks[t].class \in NextGetDbTasks) => raises
    /\ LET class == tasks[t].class
           ran == [tasks[t] EXCEPT !.attempts = @ + 1]
       IN  IF raises
           THEN /\ new_status = projects[1].status
                /\ UNCHANGED projects
                /\ IF RetryAllowed(class, tasks[t].retries)
                   THEN tasks' = [tasks EXCEPT ![t] =
                            [ran EXCEPT !.state = "retry", !.retries = @ + 1]]
                   ELSE tasks' = [tasks EXCEPT ![t] = [ran EXCEPT !.state = "failed"]]
           ELSE /\ new_status \in CycleStatuses \cup {projects[1].status}
                /\ projects' = [projects EXCEPT ![tasks[t].project_id].status = new_status]
                /\ tasks' = [tasks EXCEPT ![t] = [ran EXCEPT !.state = "succeeded"]]
    /\ UNCHANGED notTask

\* The worker takes a queued task, or one whose retry is due, and runs it.
WorkerRuns ==
    \E t \in TaskIds, raises \in BOOLEAN, new_status \in Statuses :
        Attempt(t, raises, new_status)

TaskNext ==
    \/ \E t \in TaskIds, class \in TaskClasses, project_id \in {0, 1} :
          Dispatch(t, class, project_id)
    \/ WorkerRuns

(***************************************************************************)
(* Beat scheduler: the periodic tasks of beat_schedule                     *)
(***************************************************************************)
\* beat_schedule: the task each entry runs.
beat_schedule ==
    [check_email_inbox |-> "check_inbox",
     process_work_queue |-> "process_work_queue",
     cleanup_expired_locks |-> "cleanup_expired_locks",
     update_resource_availability |-> "update_resource_availability",
     generate_daily_metrics |-> "generate_daily_metrics"]

BeatEntries == DOMAIN beat_schedule

\* What a periodic task returns. check_inbox raises at next(get_db()) and
\* asks for a retry; process_work_queue and cleanup_expired_locks import the
\* name redis_client, which the module does not define, and the other two
\* call next(get_db()); each of the four catches the exception and returns
\* status error. None of them reads or writes the validations table.
PeriodicResult(task) == IF task = "check_inbox" THEN "retry" ELSE "error"

NeverRan == [ran_at |-> -1, status |-> "none"]

BeatIdle == beat = [e \in BeatEntries |-> NeverRan]

\* Validation rows that are in the table when the scheduler starts:
\* pending, with or without a deadline (Validation.timeout_at, 0 for NULL).
ValidationTimeoutInputs == {0, 1}

PendingRow(timeout_at) ==
    [resource_id |-> 1, attribute_path |-> "capabilities.x",
     status |-> "pending", timeout_at |-> timeout_at, celery_task |-> FALSE]

\* The scheduler fires one entry: its task runs to its result.
BeatRun(e) ==
    /\ beat[e].ran_at < now
    /\ beat' = [beat EXCEPT ![e] =
                  [ran_at |-> now, status |-> PeriodicResult(beat_schedule[e])]]
    /\ UNCHANGED notBeat

BeatInit ==
    /\ BeatIdle
    /\ validations \in { <<PendingRow(t)>> : t \in ValidationTimeoutInputs }
                      \cup { <<PendingRow(t), PendingRow(u)>> :
                               t \in ValidationTimeoutInputs, u \in ValidationTimeoutInputs }
    /\ projects = [p \in ProjectIds |->
                     [status |-> "received", rfp |-> TRUE, analysis |-> FALSE,
                      plan |-> FALSE, timeout_at |-> 0]]
    /\ transition_log = <<>>
    /\ cyc = [w \in Workers |-> Idle("none")]

BeatNext ==
    \/ \E e \in BeatEntries : BeatRun(e)
    \/ Tick

(***************************************************************************)
(* Correlation layer: EmailAgent._check_inbox                              *)
(***************************************************************************)
\* Length of a generated thread id (str(uuid.uuid4())).
UuidLen == 36

\* Inbound messages. message_id is the Message-ID header: whether it holds
\* an '@', and the text before it (its length and the thread id it spells);
\* keyword: the subject or body holds one of relevant_keywords.
Messages ==
    { [uid |-> 1, at |-> FALSE, local_len |-> 0, local |-> "", keyword |-> TRUE],
      [uid |-> 2, at |-> TRUE, local_len |-> UuidLen, local |-> "TX", keyword |-> FALSE],
      [uid |-> 3, at |-> FALSE, local_len |-> 0, local |-> "", keyword |-> FALSE],
      [uid |-> 4, at |-> TRUE, local_len |-> UuidLen, local |-> "T1", keyword |-> FALSE],
      [uid |-> 5, at |-> TRUE, local_len |-> 3, local |-> "abc", keyword |-> TRUE] }

\* Thread ids that may have a thread:<id> key in the store.
ThreadIds == {"T1"}

\* EmailAgent._extract_thread_id_from_headers (no References header)
extract_thread_id_from_headers(m) ==
    IF m.at /\ m.local_len = UuidLen THEN m.local ELSE None

\* EmailAgent._is_relevant_email
is_relevant_email(m) == m.keyword

\* EmailAgent._extract_thread_id
extract_thread_id(m) == IF m.at THEN m.local ELSE None

\* EmailAgent._get_thread: the stored EmailThread (named by its id), or None.
get_thread(thread_id) ==
    IF thread_id \in thread_keys THEN thread_id ELSE None

\* EmailAgent._process_raw_email: None for a message that is filtered out;
\* _mark_email_processed raises when self.redis is None.
process_raw_email(m) ==
    IF extract_thread_id_from_headers(m) = None /\ ~is_relevant_email(m)
    THEN Ok(None)
    ELSE IF ~email_redis THEN Raise("AttributeError")
    ELSE Ok("email_data")

\* EmailAgent._process_incoming_email. EmailThread has no field metadata
\* (the stored key "metadata" is dropped when the model is built), so
\* thread.metadata raises for every thread that is found.
process_incoming_email(m) ==
    IF extract_thread_id(m) = None
    THEN Ok([status |-> "ignored", reason |-> "No thread ID"])
    ELSE IF get_thread(extract_thread_id(m)) = None
    THEN Ok([status |-> "ignored", reason |-> "Unknown thread"])
    ELSE Raise("AttributeError")

\* EmailAgent._fetch_new_emails: the messages _process_raw_email returns;
\* one that raises is logged and skipped.
fetch_new_emails(box) ==
    SelectSeq(box, LAMBDA m : process_raw_email(m) = Ok("email_data"))

\* Number of messages _check_inbox hands to _process_incoming_email: all of
\* them, or those up to and including the first that raises.
RECURSIVE Handled(_)
Handled(msgs) ==
    IF msgs = <<>> THEN 0
    ELSE IF process_incoming_email(Head(msgs)).exc # "none" THEN 1
    ELSE 1 + Handled(Tail(msgs))

NoCheck == [status |-> "none", checks |-> 0]

InboxIdle ==
    /\ email_redis = TRUE
    /\ thread_keys = {}
    /\ mailbox = <<>>
    /\ processed_email = {}
    /\ routed = <<>>
    /\ inbox_ret = NoCheck

\* EmailAgent.__init__ takes get_redis_client(): a client, or None when the
\* module global was never set. Keys thread:<id> may be in the store.
InboxInit ==
    /\ email_redis \in BOOLEAN
    /\ thread_keys \in SUBSET ThreadIds
    /\ mailbox = <<>>
    /\ processed_email = {}
    /\ routed = <<>>
    /\ inbox_ret = NoCheck

\* A message arrives in the inbox.
Deliver(m) ==
    /\ Len(mailbox) < MaxMail
    /\ \A i \in 1..Len(mailbox) : mailbox[i].uid # m.uid
    /\ mailbox' = Append(mailbox, m)
    /\ UNCHANGED <<email_redis, thread_keys, processed_email, routed, inbox_ret, notInbox>>

\* EmailAgent._check_inbox. The IMAP fetch takes the unseen messages with
\* mark_seen=False, so the inbox is left as it was.
CheckInbox(imap_ok) ==
    /\ inbox_ret.checks < MaxChecks
    /\ IF ~imap_ok
       THEN /\ inbox_ret' = [status |-> "error", checks |-> inbox_ret.checks + 1,
                             imap_ok |-> FALSE, inbox |-> mailbox, results |-> <<>>]
            /\ UNCHANGED <<processed_email, routed>>
       ELSE LET messages == fetch_new_emails(mailbox)
                n == Handled(messages)
                calls == [i \in 1..n |->
                            [uid |-> messages[i].uid,
                             result |-> process_incoming_email(messages[i])]]
                raised == n > 0 /\ calls[n].result.exc # "none"
            IN  /\ processed_email' =
                       processed_email \cup { messages[i].uid : i \in 1..Len(messages) }
                /\ routed' = routed \o calls
                /\ inbox_ret' =
                       [status |-> IF raised THEN "error" ELSE "processed",
                        checks |-> inbox_ret.checks + 1,
                        imap_ok |-> TRUE, inbox |-> mailbox,
                        results |-> IF raised THEN <<>> ELSE calls]
    /\ UNCHANGED <<email_redis, thread_keys, mailbox, notInbox>>

InboxNext ==
    \/ \E m \in Messages : Deliver(m)
    \/ \E imap_ok \in BOOLEAN : CheckInbox(imap_ok)

(***************************************************************************)
(* Outbound mail: EmailAgent.execute with a send action                    *)
(***************************************************************************)
\* Everything a send leaves alone.
notSend ==
    <<lockVars, decVars, wfVars, orchVars, taskVars, beatVars, briefVars,
      mailbox, processed_email, routed, inbox_ret>>

\* context.data["action"] values that are not check_inbox.
SendActions ==
    {"send_email", "send_validation_request", "send_clarification",
     "deliver_proposal", "archive"}

\* The key of context.data each action reads first.
PayloadKey ==
    [send_validation_request |-> "validation",
     send_clarification |-> "clarification",
     deliver_proposal |-> "proposal"]

\* context.data["email"]: absent, or the fields of an EmailMessage.
NoEmail == [to_email |-> None, body |-> None, thread_id |-> None]
EmailInputs ==
    {NoEmail}
        \cup [to_email : {"lead@x"}, body : {"b1", "b2"}, thread_id : {None, "T1"}]

\* hash(subject + body) % 10000 for the bodies above.
BodyHash == [b1 |-> 17, b2 |-> 4242]

\* The key of _is_duplicate_email and _mark_email_sent.
email_sent_key(email) == <<email.to_email, BodyHash[email.body]>>

\* str(uuid.uuid4()): the n-th generated id.
Uuid4 == <<"U1", "U2", "U3">>

\* The result of execute and what the call did.
SendResult(status, thread_id, smtp, track) ==
    [status |-> status, thread_id |-> thread_id,
     smtp_calls |-> smtp, track_calls |-> track]

\* EmailAgent._send_email: what it returns, for the email data in the
\* context. "raise" is the AttributeError of self.redis.exists on None,
\* which is outside the try block.
send_email(email, smtp_ok) ==
    IF email = NoEmail THEN SendResult("error", None, 0, 0)
    ELSE IF ~email_redis THEN SendResult("raise", None, 0, 0)
    ELSE IF email_sent_key(email) \in email_sent THEN SendResult("skipped", None, 0, 0)
    ELSE IF ~smtp_ok THEN SendResult("error", None, 1, 0)
    ELSE SendResult("sent",
                    IF email.thread_id = None THEN Uuid4[uuid_n + 1] ELSE email.thread_id,
                    1, 1)

\* EmailAgent.execute for a send action: _send_validation_request,
\* _send_clarification_request and _deliver_proposal return an error without
\* their payload and otherwise build an EmailMessage that they do not use:
\* they end with _send_email(context).
execute_send(action, payload, email, smtp_ok) ==
    IF action = "send_email" THEN send_email(email, smtp_ok)
    ELSE IF action \in DOMAIN PayloadKey
    THEN IF ~payload THEN SendResult("error", None, 0, 0)
         ELSE send_email(email, smtp_ok)
    ELSE SendResult("error", None, 0, 0)

NoSend == [n |-> 0, action |-> "none"]

SendIdle ==
    /\ outbox = <<>>
    /\ email_sent = {}
    /\ uuid_n = 0
    /\ send_ret = NoSend

\* One call of execute with a send action.
ExecuteSend(action, payload, email, smtp_ok) ==
    /\ send_ret.n < MaxSends
    /\ payload => action \in DOMAIN PayloadKey
    /\ LET r == execute_send(action, payload, email, smtp_ok)
           reached == r.smtp_calls = 1
       IN  /\ send_ret' = [n |-> send_ret.n + 1, action |-> action,
                           payload |-> payload, email |-> email, result |-> r]
           /\ uuid_n' = IF reached /\ email.thread_id = None
                        THEN uuid_n + 1 ELSE uuid_n
           /\ outbox' = IF r.status = "sent"
                        THEN Append(outbox, [to_email |-> email.to_email,
                                             thread_id |-> r.thread_id])
                        ELSE outbox
           /\ thread_keys' = IF r.status = "sent"
                             THEN thread_keys \cup {r.thread_id} ELSE thread_keys
           /\ email_sent' = IF r.status = "sent"
                            THEN email_sent \cup {email_sent_key(email)} ELSE email_sent
    /\ UNCHANGED <<email_redis, notSend>>

SendNext ==
    \E action \in SendActions, payload \in BOOLEAN, email \in EmailInputs,
       smtp_ok \in BOOLEAN : ExecuteSend(action, payload, email, smtp_ok)

(***************************************************************************)
(* End-to-end run: one project, one worker, a stubbed decision engine      *)
(***************************************************************************)
ScenarioWorker == "w1"
ScenarioProject == 1

\* Replies of the stub: it raises, so that the fallback table decides, or it
\* names the last step of the pipeline.
ScenarioLLM ==
    {[kind |-> "raise"],
     [kind |-> "text", text |-> WellFormed("send_proposal", "email")]}

\* A validation plan with three items.
NeedC == [resource_id |-> 2, attribute |-> "availability"]
ScenarioPlan == <<NeedA, NeedB, NeedC>>

\* The replies of two team members, as messages in the inbox.
ScenarioReplies == { m \in Messages : m.uid \in {2, 4} }

ScenarioBegin ==
    /\ Len(transition_log) < MaxScenarioLog
    /\ BeginCycle(ScenarioWorker, ScenarioProject, FALSE)

ScenarioDecide ==
    \E llm \in ScenarioLLM, plan \in {<<>>, ScenarioPlan}, llm_ok \in BOOLEAN :
        /\ Len(validations) + Len(plan) <= Len(ScenarioPlan)
        /\ DecideCycle(ScenarioWorker, llm, plan, llm_ok)

ScenarioUpdate == UpdateState(ScenarioWorker)

\* A team member answers once the requests exist.
ScenarioReply ==
    /\ Len(validations) = Len(ScenarioPlan)
    /\ \E m \in ScenarioReplies : Deliver(m)

ScenarioCheckInbox == CheckInbox(TRUE)

ScenarioNext ==
    \/ ScenarioBegin
    \/ ScenarioDecide
    \/ ScenarioUpdate
    \/ ScenarioReply
    \/ ScenarioCheckInbox

(***************************************************************************)
(* Checkpointed proposal workflow (LangGraph StateGraph + MemorySaver)     *)
(***************************************************************************)
BriefIds == {"brief_001"}

\* thread_id = project_id = f"project_{brief_id}"; the brief id stands for it.
Threads == BriefIds

END == "__end__"

\* initial_state of run_workflow (agent outputs are opaque: set or not).
InitialState(brief_id) ==
    [brief_id |-> brief_id,
     project_status |-> "planning",
     current_step |-> "start",
     messages |-> <<>>,
     brief_preparation_output |-> FALSE,
     proposal_output |-> FALSE,
     memory_updates |-> FALSE,
     awaiting_clarification |-> FALSE,
     awaiting_validation |-> FALSE,
     awaiting_lead_approval |-> FALSE,
     final_proposal |-> FALSE]

\* The node functions: what each returns for the state it is given.
NodeApply(node, state) ==
    CASE node = "brief_preparation" ->
            [state EXCEPT !.brief_preparation_output = TRUE,
                          !.current_step = "brief_preparation",
                          !.messages = Append(@, "Brief preparation completed")]
      [] node = "check_clarification" ->
            [state EXCEPT !.awaiting_clarification = FALSE,
                          !.current_step = "check_clarification"]
      [] node = "await_clarification" ->
            [state EXCEPT !.current_step = "await_clarification",
                          !.messages = Append(@, "Awaiting clarification")]
      [] node = "proposal_generation" ->
            [state EXCEPT !.proposal_output = TRUE,
                          !.project_status = "resourcing",
                          !.current_step = "proposal_generation",
                          !.messages = Append(@, "Proposal generation completed")]
      [] node = "resource_validation" ->
            [state EXCEPT !.awaiting_validation = TRUE,
                          !.current_step = "resource_validation",
                          !.messages = Append(@, "Resource validation emails sent")]
      [] node = "await_validation" ->
            [state EXCEPT !.current_step = "await_validation",
                          !.messages = Append(@, "Awaiting validation responses")]
      [] node = "lead_validation" ->
            [state EXCEPT !.awaiting_lead_approval = TRUE,
                          !.current_step = "lead_validation",
                          !.messages = Append(@, "Project lead validation email sent")]
      [] node = "await_lead_approval" ->
            [state EXCEPT !.current_step = "await_lead_approval",
                          !.messages = Append(@, "Awaiting project lead approval")]
      [] node = "finalize_proposal" ->
            [state EXCEPT !.project_status = "ready",
                          !.current_step = "finalize_proposal",
                          !.final_proposal = TRUE,
                          !.messages = Append(@, "Proposal finalized")]
      [] node = "update_memory" ->
            [state EXCEPT !.memory_updates = TRUE,
                          !.current_step = "complete",
                          !.messages = Append(@, "Knowledge base updated")]

\* _route_after_clarification_check
route_after_clarification_check(state) ==
    IF state.awaiting_clarification THEN "clarification_needed" ELSE "proceed"

\* The edges of _build_graph: the node that runs after `node`.
NextNode(node, state) ==
    CASE node = "brief_preparation" -> "check_clarification"
      [] node = "check_clarification" ->
            IF route_after_clarification_check(state) = "clarification_needed"
            THEN "await_clarification"
            ELSE "proposal_generation"
      [] node = "await_clarification" -> "brief_preparation"
      [] node = "proposal_generation" -> "resource_validation"
      [] node = "resource_validation" -> "await_validation"
      [] node = "await_validation" -> "lead_validation"
      [] node = "lead_validation" -> "await_lead_approval"
      [] node = "await_lead_approval" -> "finalize_proposal"
      [] node = "finalize_proposal" -> "update_memory"
      [] node = "update_memory" -> END

\* workflow.compile(checkpointer=self.memory): no interrupt_before or
\* interrupt_after is given, so invoke stops at no node.
InterruptBefore == {}

\* Nodes that call an agent, which may raise.
AgentNodes == {"brief_preparation", "proposal_generation", "update_memory"}

\* The named pause points.
PausePoints == {"await_clarification", "await_validation", "await_lead_approval"}

\* State updates passed to resume_workflow.
ResumeUpdates == {"none", "validation_done", "lead_approved"}

\* {**current_state.values, **updates}
MergeUpdates(values, updates) ==
    CASE updates = "none" -> values
      [] updates = "validation_done" -> [values EXCEPT !.awaiting_validation = FALSE]
      [] updates = "lead_approved" -> [values EXCEPT !.awaiting_lead_approval = FALSE]

NoThread == [exists |-> FALSE]

WfInit ==
    /\ wf = [t \in Threads |-> NoThread]
    /\ wfHist = [t \in Threads |-> <<>>]

\* self.graph.invoke(input, config): a new run from the entry point.
Invoke(t, input, call, updates) ==
    wf' = [wf EXCEPT ![t] =
             [exists |-> TRUE, values |-> input, running |-> TRUE,
              next |-> "brief_preparation", call |-> call, updates |-> updates,
              before |-> IF call = "resume" THEN wf[t].values ELSE input,
              resumes |-> IF call = "resume" THEN wf[t].resumes + 1 ELSE 0]]

\* run_workflow
run_workflow(t) ==
    /\ ~wf[t].exists
    /\ Invoke(t, InitialState(t), "run", "none")
    /\ UNCHANGED <<wfHist, notWf>>

\* resume_workflow (for a thread that has a checkpoint)
resume_workflow(t, updates) ==
    /\ wf[t].exists
    /\ ~wf[t].running
    /\ wf[t].resumes < MaxResumes
    /\ Invoke(t, MergeUpdates(wf[t].values, updates), "resume", updates)
    /\ UNCHANGED <<wfHist, notWf>>

\* One superstep of a running invoke: the next node runs and the
\* checkpointer saves the state it returns.
NodeStep(t) ==
    /\ wf[t].exists
    /\ wf[t].running
    /\ wf[t].next \notin InterruptBefore
    /\ LET state == NodeApply(wf[t].next, wf[t].values)
           nxt == NextNode(wf[t].next, state)
       IN  /\ wf' = [wf EXCEPT ![t].values = state,
                               ![t].next = nxt,
                               ![t].running = (nxt # END)]
           /\ wfHist' = IF nxt = END /\ wf[t].call = "resume"
                        THEN [wfHist EXCEPT ![t] =
                                Append(@, [updates |-> wf[t].updates, ok |-> TRUE,
                                           before |-> wf[t].before,
                                           values |-> state])]
                        ELSE wfHist
    /\ UNCHANGED notWf

\* The agent called by the next node raises: invoke raises and the
\* checkpoint of the last completed step stays.
NodeRaises(t) ==
    /\ wf[t].exists
    /\ wf[t].running
    /\ wf[t].next \in AgentNodes
    /\ wf' = [wf EXCEPT ![t].running = FALSE]
    /\ wfHist' = IF wf[t].call = "resume"
                 THEN [wfHist EXCEPT ![t] =
                         Append(@, [updates |-> wf[t].updates, ok |-> FALSE,
                                    before |-> wf[t].before,
                                    values |-> wf[t].values])]
                 ELSE wfHist
    /\ UNCHANGED notWf

WfNext ==
    \/ \E t \in Threads : run_workflow(t)
    \/ \E t \in Threads, u \in ResumeUpdates : resume_workflow(t, u)
    \/ \E t \in Threads : NodeStep(t)
    \/ \E t \in Threads : NodeRaises(t)

(***************************************************************************)
(* Properties: lock manager                                                *)
(***************************************************************************)
\* A step that is one completed acquire_project_lock call.
AcquireStep ==
    /\ now' = now
    /\ lcall' = lcall
    /\ <<lockRet, lockVal, lockExp>>' # <<lockRet, lockVal, lockExp>>
    /\ lockRet'.op = "acquire"

C5_OnlyHolderSucceeds ==
    (lockRet.op \in {"release", "renew"} /\ lockRet.client /\ Truthy(lockRet.ret))
        => lockRet.preVal = LockValue(lockRet.agent)

\* C24: a lock is deleted or extended only by its current holder: when a
\* caller that read its own token finishes its release or renew, the DELETE
\* or EXPIRE changes the key only if the key still holds that caller's token.
C24_OnlyHolderMutates ==
    [][\A w \in Workers :
          (/\ lcall[w].pc \in {"delete", "expire"}
           /\ lcall'[w].pc = "idle"
           /\ lcall[w].preVal = LockValue(lcall[w].agent)
           /\ <<lockVal, lockExp>>' # <<lockVal, lockExp>>)
              => lockVal[lcall[w].project] = LockValue(lcall[w].agent)]_vars

FailsValidation(llm) == llm.kind = "text" /\ ParseTry(llm.text).exc # "none"

\* C6: _decide_next_action never raises and its decision has an action,
\* whatever the collaborator does and whatever the status is.
C6_AlwaysAnAction ==
    d_result # NotCalled =>
        /\ d_result.exc = "none"
        /\ "action" \in DOMAIN d_result.value

\* C6 witness: the engine has answered a reply that failed validation for
\* a status that has no fallback entry.
C6_AnsweredMalformed ==
    /\ d_result # NotCalled
    /\ FailsValidation(d_llm)
    /\ d_status \notin DOMAIN Fallbacks

\* C7: a reply that fails schema validation yields the fallback-table
\* entry of the current status.
C7_MalformedUsesFallback ==
    (d_result # NotCalled /\ FailsValidation(d_llm))
        => d_result = fallback_decision(d_status)

\* C28: when the engine answers with the fallback of a state, the fallback
\* names the collaborator STATE_TRANSITIONS names for that state, and the
\* status its action leads to is the next state STATE_TRANSITIONS lists.
C28_FallbackAgreesWithTable ==
    (/\ d_result # NotCalled
     /\ d_llm.kind = "raise"
     /\ d_status \in DOMAIN Fallbacks)
        => /\ d_result.value.agent = STATE_TRANSITIONS[d_status].agent
           /\ determine_new_status(d_result.value.action)
                 = STATE_TRANSITIONS[d_status].next

(***************************************************************************)
(* Properties: checkpointed workflow                                       *)
(***************************************************************************)
\* The steps a run records only after it has gone past await_validation.
AfterAwaitValidation ==
    {"lead_validation", "await_lead_approval", "finalize_proposal", "complete"}

\* C8: two resume calls in a row with identical updates, both returning,
\* leave the same persisted state as the first of them alone.
C8_ResumeIdempotent ==
    \A t \in Threads : \A i \in 1..(Len(wfHist[t]) - 1) :
        (/\ wfHist[t][i].ok
         /\ wfHist[t][i + 1].ok
         /\ wfHist[t][i].updates = wfHist[t][i + 1].updates)
            => wfHist[t][i].values = wfHist[t][i + 1].values

\* C9: as long as resume has not been called for the project, the workflow
\* executes no node that comes after the pause point await_validation.
C9_HaltsAtPausePoint ==
    \A t \in Threads :
        (wf[t].exists /\ wf[t].resumes = 0)
            => wf[t].values.current_step \notin AfterAwaitValidation

\* C12: a late reply is discarded: a resume call that brings the validation
\* replies to a workflow whose saved state is already past await_validation
\* leaves that saved state as it was.
C12_LateReplyDiscarded ==
    \A t \in Threads : \A i \in 1..Len(wfHist[t]) :
        (/\ wfHist[t][i].updates = "validation_done"
         /\ wfHist[t][i].before.current_step \in AfterAwaitValidation)
            => wfHist[t][i].values = wfHist[t][i].before

(***************************************************************************)
(* Properties: state store and orchestrator                                *)
(***************************************************************************)
\* Index of the most recent log row of a project (0: none).
LastLog(p) ==
    LET rows == { i \in 1..Len(transition_log) : transition_log[i].project_id = p }
    IN  IF rows = {} THEN 0 ELSE CHOOSE i \in rows : \A j \in rows : j <= i

\* C1 (as stated): whenever a project has a transition-log row, its status is
\* the to_status of its most recent row.
C1_StatusEqualsLastLog ==
    \A p \in ProjectIds :
        LastLog(p) # 0 => projects[p].status = transition_log[LastLog(p)].to_status

\* C3 (as stated): every step that changes a project's row (status or
\* payloads) is taken while that project's lock is live.
C3_MutationUnderLock ==
    [][\A p \in ProjectIds : projects'[p] # projects[p] => KeyExists(p)]_vars

\* A transition the table allows: the successor of the current state, or an
\* escalation or timeout out of a state that has a successor.
LegalTransition(old_status, new_status) ==
    /\ old_status \in DOMAIN STATE_TRANSITIONS
    /\ \/ new_status = STATE_TRANSITIONS[old_status].next
       \/ new_status \in {"escalated", "timeout"}

\* C4 (as stated): a transition that is not legal for the current state
\* leaves no row in the transition log.
C4_IllegalTransitionRejected ==
    \A i \in 1..Len(transition_log) :
        LegalTransition(transition_log[i].from_status, transition_log[i].to_status)

\* C10 (as stated): no two open validation rows are for the same
\* (resource_id, attribute_path).
C10_ValidationDedup ==
    \A i, j \in 1..Len(validations) :
        (/\ i < j
         /\ validations[i].status \in {"pending", "sent"}
         /\ validations[j].status \in {"pending", "sent"})
            => \/ validations[i].resource_id # validations[j].resource_id
               \/ validations[i].attribute_path # validations[j].attribute_path

\* Rows of the transition log that record a project's timeout.
TimeoutRows(p) ==
    { i \in 1..Len(transition_log) :
        transition_log[i].project_id = p /\ transition_log[i].to_status = "timeout" }

\* C14 (as stated): however often the timeout check runs on a project whose
\* timeout_at has passed, the log holds at most one row for that timeout.
C14_SweepIdempotent ==
    \A p \in ProjectIds : Cardinality(TimeoutRows(p)) <= 1

\* The terminal project states.
TerminalStates == {"sent", "escalated", "timeout"}

\* C21: sent, escalated and timeout are terminal: once a project is in one
\* of them, a step of a cycle that started after that (every cycle under way
\* has read a terminal status) changes neither its status nor the log.
C21_TerminalStatesFinal ==
    [][\A p \in ProjectIds :
          (/\ projects[p].status \in TerminalStates
           /\ \A w \in Workers :
                 cyc[w].pc # "idle" => cyc[w].status \in TerminalStates)
              => /\ projects'[p].status = projects[p].status
                 /\ transition_log' = transition_log]_vars

\* C25: Project.status is always one of the thirteen lifecycle states,
\* whatever action the decision engine returns.
C25_StatusInListedStates ==
    \A p \in ProjectIds : projects[p].status \in WorkflowStates

\* C26: validation fan-out dispatches one outbound task per created
\* request: every validation row has its send_validation_email task queued
\* by the time the planning agent has returned.
C26_OneTaskPerRequest ==
    \A i \in 1..Len(validations) : validations[i].celery_task

\* C27: a cycle whose collaborator returned the outcome error leaves the
\* project's status and the transition log as they were.
C27_ErrorLeavesStateUnchanged ==
    [][\A w \in Workers :
          (/\ cyc[w].pc = "update"
           /\ cyc[w].agent_result = "error"
           /\ cyc'[w].pc = "idle")
              => /\ \A p \in ProjectIds : projects'[p].status = projects[p].status
                 /\ transition_log' = transition_log]_vars

\* C30: the timeout check precedes every decision. A cycle that starts on
\* an existing project whose timeout_at has passed appends the timeout row
\* and returns timeout_handled, going nowhere near the decision; and every
\* timeout row in the log belongs to a project whose timeout_at is set.
C30_TimeoutPrecedesDecision ==
    [][/\ \A w \in Workers : \A p \in ProjectIds :
             (/\ cyc[w].pc = "idle"
              /\ cyc'[w] # cyc[w]
              /\ cyc'[w] # Failed("Project not found")
              /\ check_timeouts(projects[p].timeout_at))
                 => /\ cyc'[w] = Idle("timeout_handled")
                    /\ transition_log' = Append(transition_log,
                           LogEntry(p, projects[p].status, "timeout",
                                    "Project timed out"))
       /\ \A i \in 1..Len(transition_log') :
             transition_log'[i].to_status = "timeout"
                 => projects[transition_log'[i].project_id].timeout_at # 0]_vars

(***************************************************************************)
(* Properties: task dispatcher                                             *)
(***************************************************************************)
\* C17: a task is retried at most its class's max_retries times, so its body
\* runs at most max_retries + 1 times, and a task that has failed has used
\* exactly that many attempts.
C17_BoundedRetries ==
    \A t \in TaskIds :
        tasks[t] # NoTask =>
            /\ tasks[t].retries <= TaskMaxRetries[tasks[t].class]
            /\ tasks[t].attempts <= TaskMaxRetries[tasks[t].class] + 1
            /\ tasks[t].state = "failed" =>
                  /\ tasks[t].retries = TaskMaxRetries[tasks[t].class]
                  /\ tasks[t].attempts = TaskMaxRetries[tasks[t].class] + 1

\* A send_email task has failed on every attempt and ended failed after its
\* fifth retry.
C17_SendEmailExhausted ==
    \E t \in TaskIds :
        /\ tasks[t] # NoTask
        /\ tasks[t].class = "send_email"
        /\ tasks[t].state = "failed"
        /\ tasks[t].retries = 5

\* C18 (as stated): once a task for a project has exhausted its retries, the
\* project shows an error status and the log holds a row for it.
C18_FailureSurfaced ==
    \A t \in TaskIds :
        (/\ tasks[t] # NoTask
         /\ tasks[t].state = "failed"
         /\ tasks[t].class \in ProjectTasks)
            => /\ projects[tasks[t].project_id].status = "error"
               /\ LastLog(tasks[t].project_id) # 0

\* C15: the pipeline never blocks forever on validation: a project that is
\* in validating eventually leaves it, as long as the worker keeps running
\* the tasks that are queued.
C15_ValidationEventuallyProceeds ==
    \A p \in ProjectIds :
        (projects[p].status = "validating") ~> (projects[p].status # "validating")

(***************************************************************************)
(* Properties: correlation layer                                           *)
(***************************************************************************)
\* C13: the same inbound message is routed at most once: no uid occurs in
\* two calls of _process_incoming_email, whatever the number of inbox checks.
C13_ProcessedAtMostOnce ==
    \A i, j \in 1..Len(routed) : routed[i].uid = routed[j].uid => i = j

\* A message the inbox check does not filter out as irrelevant.
ReadByCheck(m) == extract_thread_id_from_headers(m) # None \/ is_relevant_email(m)

\* A message with no thread identifier, or one that names no tracked thread.
CorrelationMiss(m) ==
    extract_thread_id(m) = None \/ get_thread(extract_thread_id(m)) = None

MissReason(m) ==
    IF extract_thread_id(m) = None THEN "No thread ID" ELSE "Unknown thread"

\* C19: a correlation miss is dropped with its reason and does not stop the
\* inbox check: after a check whose IMAP fetch succeeded, every message of
\* the inbox that is a correlation miss has a result "ignored" carrying the
\* reason that fits it (no thread id / unknown thread).
C19_MissDroppedWithReason ==
    (inbox_ret.status # "none" /\ inbox_ret.imap_ok) =>
        \A i \in 1..Len(inbox_ret.inbox) :
            LET m == inbox_ret.inbox[i] IN
            (ReadByCheck(m) /\ CorrelationMiss(m)) =>
                \E k \in 1..Len(inbox_ret.results) :
                    /\ inbox_ret.results[k].uid = m.uid
                    /\ inbox_ret.results[k].result =
                           Ok([status |-> "ignored", reason |-> MissReason(m)])

(***************************************************************************)
(* Properties: beat scheduler                                              *)
(***************************************************************************)
\* C16: a request that is still pending or sent when its timeout_at passes
\* is set to timeout by the next periodic sweep: once every periodic task
\* has run at a time later than the request's timeout_at, the request is no
\* longer pending or sent.
C16_SweepSetsTimeout ==
    \A i \in 1..Len(validations) :
        (/\ validations[i].timeout_at # 0
         /\ \A e \in BeatEntries : beat[e].ran_at > validations[i].timeout_at)
            => validations[i].status \notin {"pending", "sent"}

(***************************************************************************)
(* Properties: end-to-end run                                              *)
(***************************************************************************)
\* The log starts received -> analyzing -> requirements_ready -> validating.
ScenarioPrefix ==
    /\ Len(transition_log) >= 3
    /\ transition_log[1].from_status = "received"
    /\ transition_log[1].to_status = "analyzing"
    /\ transition_log[2].from_status = "analyzing"
    /\ transition_log[2].to_status = "requirements_ready"
    /\ transition_log[3].from_status = "requirements_ready"
    /\ transition_log[3].to_status = "validating"

WithStatus(st) == { i \in 1..Len(validations) : validations[i].status = st }

\* C20: in the end-to-end run (the engine drives received -> analyzing ->
\* requirements_ready -> validating, three requests are created, the replies
\* of two team members have been read by an inbox check), a project that
\* has reached sent has two requests responded and one in timeout, and its
\* log has exactly five rows.
C20_EndToEnd ==
    (/\ ScenarioPrefix
     /\ Len(validations) = 3
     /\ Cardinality({ routed[i].uid : i \in 1..Len(routed) }) = 2
     /\ projects[ScenarioProject].status = "sent")
        => /\ Cardinality(WithStatus("responded")) = 2
           /\ Cardinality(WithStatus("timeout")) = 1
           /\ Len(transition_log) = 5

(***************************************************************************)
(* Properties: outbound mail                                               *)
(***************************************************************************)
\* C22: execute with action send_validation_request and the validation data
\* sends one message through SMTP, records the thread once and returns
\* status sent with a thread_id.
C22_ValidationRequestSent ==
    (send_ret.action = "send_validation_request" /\ send_ret.payload) =>
        /\ send_ret.result.status = "sent"
        /\ send_ret.result.thread_id # None
        /\ send_ret.result.smtp_calls = 1
        /\ send_ret.result.track_calls = 1

(***************************************************************************)
(* Properties: brief review agent                                          *)
(***************************************************************************)
\* C23: when the checkpoint saved for (project, "brief_review") records a
\* failed run, execute resumes from it and returns a result with
\* recovered_from_checkpoint true, without running the analysis again.
C23_RecoversFromCheckpoint ==
    (brief_ret.calls > 0 /\ checkpoint = "failed") =>
        /\ brief_ret.recovered
        /\ brief_ret.analyses = 0

(***************************************************************************)
(* Specifications                                                          *)
(***************************************************************************)
LockIdle ==
    /\ redis_client = [w \in Workers |-> TRUE]
    /\ lockVal = [p \in LockProjects |-> Nil]
    /\ lockExp = [p \in LockProjects |-> 0]
    /\ now = 0
    /\ lcall = [w \in Workers |-> NoCall]
    /\ lockRet = [op |-> "none"]

DecIdle ==
    /\ d_status = "received"
    /\ d_llm = [kind |-> "raise"]
    /\ d_result = NotCalled

WfIdle ==
    /\ wf = [t \in Threads |-> NoThread]
    /\ wfHist = [t \in Threads |-> <<>>]

OrchIdle ==
    /\ projects = [p \in ProjectIds |->
                     [status |-> "received", rfp |-> TRUE, analysis |-> FALSE,
                      plan |-> FALSE, timeout_at |-> 0]]
    /\ transition_log = <<>>
    /\ validations = <<>>
    /\ cyc = [w \in Workers |-> Idle("none")]

InitLock == LockInit /\ DecIdle /\ WfIdle /\ OrchIdle /\ TaskIdle /\ InboxIdle /\ BeatIdle /\ SendIdle /\ BriefIdle
SpecLock == InitLock /\ [][LockNext]_vars

InitDecide == DecInit /\ LockIdle /\ WfIdle /\ OrchIdle /\ TaskIdle /\ InboxIdle /\ BeatIdle /\ SendIdle /\ BriefIdle
DecNext == Decide
SpecDecide == InitDecide /\ [][DecNext]_vars

InitWorkflow == WfInit /\ LockIdle /\ DecIdle /\ OrchIdle /\ TaskIdle /\ InboxIdle /\ BeatIdle /\ SendIdle /\ BriefIdle
SpecWorkflow == InitWorkflow /\ [][WfNext]_vars

InitOrch == OrchInit /\ LockIdle /\ DecIdle /\ WfIdle /\ TaskIdle /\ InboxIdle /\ BeatIdle /\ SendIdle /\ BriefIdle
SpecOrch == InitOrch /\ [][OrchNext]_vars

InitTasks == TaskIdle /\ OrchIdle /\ LockIdle /\ DecIdle /\ WfIdle /\ InboxIdle /\ BeatIdle /\ SendIdle /\ BriefIdle
SpecTasks == InitTasks /\ [][TaskNext]_vars

\* A Celery worker executes every task that is queued or due for a retry.
FairSpecTasks == SpecTasks /\ WF_vars(WorkerRuns)

InitInbox == InboxInit /\ TaskIdle /\ OrchIdle /\ LockIdle /\ DecIdle /\ WfIdle /\ BeatIdle /\ SendIdle /\ BriefIdle
SpecInbox == InitInbox /\ [][InboxNext]_vars

InitBeat == BeatInit /\ LockIdle /\ DecIdle /\ WfIdle /\ TaskIdle /\ InboxIdle /\ SendIdle /\ BriefIdle
SpecBeat == InitBeat /\ [][BeatNext]_vars

InitScenario == OrchIdle /\ InboxIdle /\ LockIdle /\ DecIdle /\ WfIdle /\ TaskIdle /\ BeatIdle /\ SendIdle /\ BriefIdle
SpecScenario == InitScenario /\ [][ScenarioNext]_vars

InitSend == InboxInit /\ SendIdle /\ OrchIdle /\ LockIdle /\ DecIdle /\ WfIdle /\ TaskIdle /\ BeatIdle /\ BriefIdle
SpecSend == InitSend /\ [][SendNext]_vars

InitBrief == BriefInit /\ OrchInit /\ LockIdle /\ DecIdle /\ WfIdle /\ TaskIdle /\ InboxIdle /\ BeatIdle /\ SendIdle
SpecBrief == InitBrief /\ [][BriefNext]_vars

====
